---- MODULE Spec2Model ----
(***************************************************************************)
(* Model of fiber_solver/solver.py: the Connection/Fiber/Link value types, *)
(* Solver.load (the CP-SAT model it builds), Solver.solve, and             *)
(* Solver.__str__ (the report, its coupler estimate and the fold of the    *)
(* coupler tiers below min_coupler).                                       *)
(*                                                                         *)
(* A fiber or link is a record [cores, length]; its identity is its index  *)
(* in the list it was passed in.  The decision matrix x maps every pair    *)
(* <<fiber index, link index>> to a BOOLEAN.  A linear expression of the   *)
(* CP model is [coef, const] with coef a function over the pairs, and a    *)
(* constraint adds the closed interval [lb, ub] the expression must lie in.*)
(* Coupler counts are Python floats with denominators 1, min_coupler or    *)
(* max_coupler; they are kept exactly, multiplied by CouplerScale.         *)
(***************************************************************************)
EXTENDS Integers, Sequences, FiniteSets, TLC

VARIABLES pc, links, fibers, working_fibers, model, solver, status, x, out,
          coupler_count, prefold, fold_runs

vars == <<pc, links, fibers, working_fibers, model, solver, status, x, out,
          coupler_count, prefold, fold_runs>>

----------------------------------------------------------------------------
(* Bounds of the checked instances *)

MaxFibers == 2
MaxLinks == 2
PoolFibers == 3
MaxCount == 3
MaxFoldRuns == 2

(* Solver.__init__: default_config *)
slack == 5
core_penalty == 10000
max_length_multicore_x10 == 18
max_length == 5
max_chain == 2
max_cores == 24
min_coupler == 2
max_coupler == 4

(* The fibers and links the inputs are drawn from: <<cores, length>> *)
Conn(c, n) == [cores |-> c, length |-> n]

FiberKinds == << Conn(0, 70), Conn(1, 25), Conn(2, 30), Conn(4, 120),
                 Conn(6, 60), Conn(30, 50) >>

LinkKinds == << Conn(1, 50), Conn(2, 50), Conn(2, 100), Conn(4, 50) >>

(* Lists of 1..n entries of kinds, listed in catalogue order *)
ListsOf(kinds, n) ==
  UNION { { [i \in 1..k |-> kinds[ix[i]]] :
              ix \in { s \in [1..k -> 1..Len(kinds)] :
                         \A i \in 1..(k-1) : s[i] <= s[i+1] } } : k \in 1..n }

----------------------------------------------------------------------------
(* Connection *)

is_multicore(self) == self.cores > 2

len(self) == IF self.cores <= 0 THEN 0 ELSE self.length

lt(self, other) == self.cores < other.cores /\ self.length < other.length

----------------------------------------------------------------------------
(* Linear expressions over the decision variables *)

Pairs(fs, ls) == (1..Len(fs)) \X (1..Len(ls))

RECURSIVE SumRow(_, _, _, _)
SumRow(coef, a, f, l) ==
  IF l = 0 THEN 0
  ELSE (IF a[<<f, l>>] THEN coef[<<f, l>>] ELSE 0) + SumRow(coef, a, f, l - 1)

RECURSIVE SumRows(_, _, _, _)
SumRows(coef, a, f, nl) ==
  IF f = 0 THEN 0 ELSE SumRow(coef, a, f, nl) + SumRows(coef, a, f - 1, nl)

Value(e, a, nf, nl) == e.const + SumRows(e.coef, a, nf, nl)

Expr(c, k) == [coef |-> c, const |-> k]

Plus(e1, e2) ==
  [coef |-> [p \in DOMAIN e1.coef |-> e1.coef[p] + e2.coef[p]],
   const |-> e1.const + e2.const]

RECURSIVE SumExprs(_, _)
SumExprs(es, k) == IF k = 1 THEN es[1] ELSE Plus(SumExprs(es, k - 1), es[k])

Constraint(e, lo, hi) == [coef |-> e.coef, const |-> e.const, lb |-> lo, ub |-> hi]

----------------------------------------------------------------------------
(* Solver.load: the constraints *)

ForcedFalse_Omitted(fs, ls) == {}

(* a pair whose fiber compares below the link is fixed to false *)
ForcedFalse(fs, ls) ==
  { Constraint(Expr([p \in Pairs(fs, ls) |-> IF p = q THEN 1 ELSE 0], 0), 0, 0) :
      q \in { p \in Pairs(fs, ls) : lt(fs[p[1]], ls[p[2]]) } }

AtMostOne_Dropped(fs, ls) == {}

(* every fiber only once *)
AtMostOne(fs, ls) ==
  { Constraint(Expr([p \in Pairs(fs, ls) |-> IF p[1] = g THEN 1 ELSE 0], 0), 0, 1) :
      g \in 1..Len(fs) }

MulticoreConstraints_NoCoreBound(fs, ls, k) ==
  { Constraint(Expr([p \in Pairs(fs, ls) |-> IF p[2] = k THEN 1 ELSE 0], 0), 1, 1),
    Constraint(Expr([p \in Pairs(fs, ls) |-> IF p[2] = k THEN len(fs[p[1]]) ELSE 0], 0),
               len(ls[k]), (len(ls[k]) * max_length_multicore_x10) \div 10) }

(* a multicore link: one fiber, its length and its cores within bounds *)
MulticoreConstraints(fs, ls, k) ==
  { Constraint(Expr([p \in Pairs(fs, ls) |-> IF p[2] = k THEN 1 ELSE 0], 0), 1, 1),
    Constraint(Expr([p \in Pairs(fs, ls) |-> IF p[2] = k THEN len(fs[p[1]]) ELSE 0], 0),
               len(ls[k]), (len(ls[k]) * max_length_multicore_x10) \div 10),
    Constraint(Expr([p \in Pairs(fs, ls) |-> IF p[2] = k THEN fs[p[1]].cores ELSE 0], 0),
               ls[k].cores, max_cores) }

Occurrences(ids, f) == Cardinality({ i \in DOMAIN ids : ids[i] = f })

(* any other link: total length plus slack within bounds, and the number of *)
(* fibers of the module-level list working_fibers chained onto it           *)
ChainConstraints(fs, ls, wf, k) ==
  { Constraint(Expr([p \in Pairs(fs, ls) |-> IF p[2] = k THEN len(fs[p[1]]) ELSE 0], slack),
               len(ls[k]), len(ls[k]) * max_length),
    Constraint(Expr([p \in Pairs(fs, ls) |->
                       IF p[2] = k THEN Occurrences(wf.ids, p[1]) ELSE 0], 0),
               1, max_chain) }

LinkConstraints(fs, ls, wf) ==
  UNION { IF is_multicore(ls[k]) THEN MulticoreConstraints(fs, ls, k)
                                 ELSE ChainConstraints(fs, ls, wf, k) :
          k \in 1..Len(ls) }

(* Solver.cost: the mismatch penalty of giving fiber option to link target *)
cost(target, option) ==
  IF (is_multicore(option) /\ ~is_multicore(target)) \/ target.cores # option.cores
  THEN core_penalty ELSE 0

----------------------------------------------------------------------------
(* Solver.load: the objective.  Every model.Minimize call in program order *)

FiberCountTerm(fs, ls) == Expr([p \in Pairs(fs, ls) |-> 1000], 0)

LinkFiberCountTerm(fs, ls, k) ==
  Expr([p \in Pairs(fs, ls) |-> IF p[2] = k THEN 50000 ELSE 0], 0)

LengthOverrunTerm(fs, ls, k) ==
  Expr([p \in Pairs(fs, ls) |-> IF p[2] = k THEN len(fs[p[1]]) ELSE 0], 0 - len(ls[k]))

CoreCountTerm(fs, ls, k) ==
  Expr([p \in Pairs(fs, ls) |-> IF p[2] = k THEN 10000 * fs[p[1]].cores ELSE 0], 0)

PenaltyTerm(fs, ls) == Expr([p \in Pairs(fs, ls) |-> cost(ls[p[2]], fs[p[1]])], 0)

RECURSIVE PerLinkCalls(_, _, _)
PerLinkCalls(fs, ls, k) ==
  IF k = 0 THEN << >>
  ELSE PerLinkCalls(fs, ls, k - 1) \o
       << LinkFiberCountTerm(fs, ls, k), LengthOverrunTerm(fs, ls, k),
          CoreCountTerm(fs, ls, k) >>

MinimizeCalls(fs, ls) ==
  << FiberCountTerm(fs, ls) >> \o PerLinkCalls(fs, ls, Len(ls)) \o
  << PenaltyTerm(fs, ls) >>

Minimize_Accumulate(m, e) == [m EXCEPT !.objective = Plus(m.objective, e)]

(* CpModel.Minimize sets the objective of the model: an earlier one is dropped *)
Minimize(m, e) == [m EXCEPT !.objective = e]

RECURSIVE MinimizeAll(_, _, _)
MinimizeAll(m, calls, k) ==
  IF k = 0 THEN m ELSE Minimize(MinimizeAll(m, calls, k - 1), calls[k])

NewModel(fs, ls) ==
  [constraints |-> {}, objective |-> Expr([p \in Pairs(fs, ls) |-> 0], 0)]

BuildModel(ls, fs, wf) ==
  LET m0 == NewModel(fs, ls)
      m1 == [m0 EXCEPT !.constraints =
               ForcedFalse(fs, ls) \cup AtMostOne(fs, ls) \cup LinkConstraints(fs, ls, wf)]
      calls == MinimizeCalls(fs, ls)
  IN  MinimizeAll(m1, calls, Len(calls))

(* what load raises: the name working_fibers is bound only when the file runs *)
(* as a script, and x has a key only for the fibers passed to load            *)
LoadError(ls, fs, wf) ==
  IF \A k \in 1..Len(ls) : is_multicore(ls[k]) THEN "none"
  ELSE IF ~wf.bound THEN "NameError"
  ELSE IF \E i \in DOMAIN wf.ids : wf.ids[i] \notin 1..Len(fs) THEN "KeyError"
  ELSE "none"

----------------------------------------------------------------------------
(* Solver.solve: what the CP-SAT solver can answer for the model *)

Satisfies(m, a, nf, nl) ==
  \A c \in m.constraints :
     LET v == Value(c, a, nf, nl) IN v >= c.lb /\ v <= c.ub

FeasibleSet(m, fs, ls) ==
  { a \in [Pairs(fs, ls) -> BOOLEAN] : Satisfies(m, a, Len(fs), Len(ls)) }

ObjectiveValue(m, a, fs, ls) == Value(m.objective, a, Len(fs), Len(ls))

OptimalSet(m, feas, fs, ls) ==
  { a \in feas : \A b \in feas :
       ObjectiveValue(m, a, fs, ls) <= ObjectiveValue(m, b, fs, ls) }

----------------------------------------------------------------------------
(* Solver.__str__: the report *)

EmptyDict == [k \in {} |-> 0]

Get(d, k) == IF k \in DOMAIN d THEN d[k] ELSE 0

Put(d, k, v) == [q \in (DOMAIN d) \cup {k} |-> IF q = k THEN v ELSE d[q]]

fib_list(a, fs, k) == { f \in 1..Len(fs) : a[<<f, k>>] }

max_core(fs, fl) == CHOOSE c \in { fs[f].cores : f \in fl } : \A f \in fl : fs[f].cores <= c

couplersize(mc) ==
  IF mc >= max_coupler THEN max_coupler
  ELSE IF mc >= min_coupler THEN min_coupler
  ELSE 1

(* coupler counts are kept multiplied by CouplerScale *)
CouplerScale == max_coupler

(* what a link with n fibers adds to the count of its tier *)
CouplerAmount(n, mc, size) == CouplerScale * n - (1 * ((CouplerScale * mc) \div size))

RECURSIVE CountCouplers(_, _, _)
CountCouplers(a, fs, k) ==
  IF k = 0 THEN EmptyDict
  ELSE LET d == CountCouplers(a, fs, k - 1)
           fl == fib_list(a, fs, k)
           mc == max_core(fs, fl)
           size == couplersize(mc)
       IN  IF Cardinality(fl) > 1
           THEN Put(d, size, Get(d, size) + CouplerAmount(Cardinality(fl), mc, size))
           ELSE d

RECURSIVE CountCores(_, _, _)
CountCores(a, fs, k) ==
  IF k = 0 THEN EmptyDict
  ELSE LET d == CountCores(a, fs, k - 1)
           mc == max_core(fs, fib_list(a, fs, k))
       IN  Put(d, mc, Get(d, mc) + 1)

(* the loop over coupler_count.items() that raises the tiers below min_coupler; *)
(* reading the min_coupler entry of the defaultdict inserts it when it is       *)
(* missing, and the iteration then stops with a RuntimeError                    *)
Fold(cc) ==
  IF \A k \in DOMAIN cc : k >= min_coupler THEN [raised |-> FALSE, counts |-> cc]
  ELSE IF min_coupler \notin DOMAIN cc
       THEN [raised |-> TRUE, counts |-> Put(cc, min_coupler, 0)]
       ELSE [raised |-> FALSE,
             counts |-> [k \in DOMAIN cc |->
                           IF k < min_coupler THEN cc[min_coupler] + cc[k] ELSE cc[k]]]

(* the "coupler <key> amount <value>" lines *)
CouplerLines(cc) == [k \in { q \in DOMAIN cc : q >= min_coupler } |-> cc[k]]

NoOutput ==
  [returned |-> "none", raised |-> "none", total_cost |-> 0, has |-> << >>,
   unused |-> {}, cores |-> EmptyDict, couplers |-> EmptyDict]

Raises(e) == [NoOutput EXCEPT !.raised = e]

Returns(t) == [NoOutput EXCEPT !.returned = t]

(* is the "No solution" branch taken; evaluating the bare name status raises *)
StatusCheck(st) ==
  IF st # "OPTIMAL" THEN "NameError" ELSE "report"

Report(m, a, fs, ls) ==
  IF \E k \in 1..Len(ls) : fib_list(a, fs, k) = {} THEN Raises("ValueError")
  ELSE LET folded == Fold(CountCouplers(a, fs, Len(ls)))
       IN  IF folded.raised THEN Raises("RuntimeError")
           ELSE [returned |-> "report", raised |-> "none",
                 total_cost |-> ObjectiveValue(m, a, fs, ls),
                 has |-> [k \in 1..Len(ls) |-> fib_list(a, fs, k)],
                 unused |-> { f \in 1..Len(fs) : \A k \in 1..Len(ls) : ~a[<<f, k>>] },
                 cores |-> CountCores(a, fs, Len(ls)),
                 couplers |-> CouplerLines(folded.counts)]

str(at, sv, st, m, a, fs, ls) ==
  IF at = "init" THEN Raises("AttributeError")
  ELSE IF sv = "None" THEN Returns("Not yet solved")
  ELSE LET c == StatusCheck(st)
       IN  IF c = "No solution" THEN Returns("No solution")
           ELSE IF c = "NameError" THEN Raises("NameError")
           ELSE Report(m, a, fs, ls)

----------------------------------------------------------------------------
(* The inputs *)

Ids(n) == [i \in 1..n |-> i]

(* the module-level name working_fibers.  Run as a script, the file binds it *)
(* to the list it passes to load; imported, the name is unbound             *)
ScriptBinding(fs) == [bound |-> TRUE, ids |-> Ids(Len(fs))]

Unbound == [bound |-> FALSE, ids |-> << >>]

(* imported, with the name bound by the importing code to a list of its own: *)
(* some of the fibers passed to load, or a fiber that is not among them       *)
Rebound(fs) ==
  { [bound |-> TRUE, ids |-> Ids(k)] : k \in 0..(Len(fs) - 1) }
  \cup { [bound |-> TRUE, ids |-> << Len(fs) + 1 >>] }

Bindings(fs, rebind) ==
  {ScriptBinding(fs), Unbound} \cup (IF rebind THEN Rebound(fs) ELSE {})

InitWith(nf, nl, rebind) ==
  /\ pc = "init"
  /\ fibers \in ListsOf(FiberKinds, nf)
  /\ links \in ListsOf(LinkKinds, nl)
  /\ working_fibers \in Bindings(fibers, rebind)
  /\ model = NewModel(fibers, links)
  /\ solver = "unset"
  /\ status = "None"
  /\ x = [p \in Pairs(fibers, links) |-> FALSE]
  /\ out = NoOutput
  /\ coupler_count = EmptyDict
  /\ prefold = EmptyDict
  /\ fold_runs = 0

Init == InitWith(MaxFibers, MaxLinks, FALSE)

InitPool == InitWith(PoolFibers, 1, TRUE)

----------------------------------------------------------------------------
(* The operations *)

Load ==
  /\ pc = "init"
  /\ LET e == LoadError(links, fibers, working_fibers)
     IN  IF e = "none"
         THEN /\ model' = BuildModel(links, fibers, working_fibers)
              /\ pc' = "loaded"
         ELSE /\ model' = model
              /\ pc' = e
  /\ solver' = "None"
  /\ status' = "None"
  /\ UNCHANGED <<links, fibers, working_fibers, x, out, coupler_count, prefold, fold_runs>>

Solve ==
  /\ pc = "loaded"
  /\ solver' = "CpSolver"
  /\ pc' = "solved"
  /\ LET feas == FeasibleSet(model, fibers, links)
     IN  \/ /\ status' = "FEASIBLE"
            /\ x' \in feas
         \/ /\ status' = "OPTIMAL"
            /\ x' \in OptimalSet(model, feas, fibers, links)
         \/ /\ feas = {}
            /\ status' = "INFEASIBLE"
            /\ x' = x
         \/ /\ status' = "UNKNOWN"
            /\ x' = x
  /\ UNCHANGED <<links, fibers, working_fibers, model, out, coupler_count, prefold, fold_runs>>

Str ==
  /\ pc \in {"init", "loaded", "solved"}
  /\ out' = str(pc, solver, status, model, x, fibers, links)
  /\ pc' = "printed"
  /\ IF pc = "solved" /\ StatusCheck(status) = "report"
        /\ \A k \in 1..Len(links) : fib_list(x, fibers, k) # {}
     THEN /\ prefold' = CountCouplers(x, fibers, Len(links))
          /\ coupler_count' = Fold(prefold').counts
          /\ fold_runs' = 1
     ELSE UNCHANGED <<coupler_count, prefold, fold_runs>>
  /\ UNCHANGED <<links, fibers, working_fibers, model, solver, status, x>>

Next == Load \/ Solve \/ Str

Spec == Init /\ [][Next]_vars

SpecPool == InitPool /\ [][Next]_vars

(* The fold alone, over every map of tier counts the report can build *)

Tiers == {1, min_coupler, max_coupler}

TierMaps == UNION { [keys -> 0..MaxCount] : keys \in SUBSET Tiers }

InitFold ==
  /\ pc = "fold"
  /\ fibers = << >>
  /\ links = << >>
  /\ working_fibers = Unbound
  /\ model = NewModel(fibers, links)
  /\ solver = "unset"
  /\ status = "None"
  /\ x = [p \in Pairs(fibers, links) |-> FALSE]
  /\ out = NoOutput
  /\ coupler_count \in TierMaps
  /\ prefold = coupler_count
  /\ fold_runs = 0

FoldStep ==
  /\ pc = "fold"
  /\ fold_runs < MaxFoldRuns
  /\ LET r == Fold(coupler_count)
     IN  /\ coupler_count' = r.counts
         /\ pc' = IF r.raised THEN "RuntimeError" ELSE "fold"
  /\ fold_runs' = fold_runs + 1
  /\ UNCHANGED <<links, fibers, working_fibers, model, solver, status, x, out, prefold>>

SpecFold == InitFold /\ [][FoldStep]_vars

----------------------------------------------------------------------------
(* Properties *)

(* the solver returned an assignment: x is a feasible assignment of the model *)
HasAssignment == status \in {"OPTIMAL", "FEASIBLE"}

Assigned(k) == fib_list(x, fibers, k)

RECURSIVE SumLen(_, _)
SumLen(fs, fl) ==
  IF fl = {} THEN 0
  ELSE LET f == CHOOSE g \in fl : TRUE IN len(fs[f]) + SumLen(fs, fl \ {f})

(* C1: in every assignment the solver can return, each fiber is assigned to *)
(* at most one link.                                                         *)
C1_AtMostOneLinkPerFiber ==
  HasAssignment =>
    \A f \in 1..Len(fibers) :
       Cardinality({ k \in 1..Len(links) : x[<<f, k>>] }) <= 1

C1_Witness ==
  /\ HasAssignment
  /\ Len(links) >= 2
  /\ \E f \in 1..Len(fibers) :
        /\ x[<<f, 1>>]
        /\ ~lt(fibers[f], links[2])
        /\ \E g \in 1..Len(fibers) : x[<<g, 2>>]

(* C2: a multicore link has exactly one fiber; that fiber has at least the   *)
(* link's cores and at most max_cores, and its length lies between the link's *)
(* length and floor(link length * 1.8).                                      *)
C2_MulticoreLink ==
  HasAssignment =>
    \A k \in 1..Len(links) :
       is_multicore(links[k]) =>
         /\ Cardinality(Assigned(k)) = 1
         /\ \A f \in Assigned(k) :
               /\ fibers[f].cores >= links[k].cores
               /\ fibers[f].cores <= max_cores
               /\ fibers[f].length >= links[k].length
               /\ 10 * fibers[f].length <= links[k].length * max_length_multicore_x10

C2_Witness ==
  /\ HasAssignment
  /\ \E k \in 1..Len(links) : is_multicore(links[k]) /\ Assigned(k) # {}
  /\ \E f \in 1..Len(fibers) : fibers[f].cores > max_cores

(* C3: a link that is not multicore has between 1 and max_chain of the fibers *)
(* passed to load, whose lengths plus slack reach the link's length and stay  *)
(* within link length * max_length.                                           *)
C3_ChainedLink ==
  HasAssignment =>
    \A k \in 1..Len(links) :
       ~is_multicore(links[k]) =>
         /\ Cardinality(Assigned(k)) >= 1
         /\ Cardinality(Assigned(k)) <= max_chain
         /\ SumLen(fibers, Assigned(k)) + slack >= links[k].length
         /\ SumLen(fibers, Assigned(k)) <= links[k].length * max_length

Excluded(p) ==
  /\ fibers[p[1]].cores < links[p[2]].cores
  /\ fibers[p[1]].length < links[p[2]].length

FixedFalse(m, p) ==
  \E c \in m.constraints :
     /\ c.lb = 0 /\ c.ub = 0 /\ c.const = 0
     /\ \A q \in DOMAIN c.coef : c.coef[q] = (IF q = p THEN 1 ELSE 0)

(* C4: every pair has a decision variable; the pairs load fixes to false are *)
(* exactly those with fiber.cores < link.cores and fiber.length < link.length, *)
(* and none of them is true in an assignment the solver returns.              *)
C4_ExcludedPairsFalse ==
  HasAssignment =>
    /\ DOMAIN x = Pairs(fibers, links)
    /\ \A p \in Pairs(fibers, links) :
          /\ FixedFalse(model, p) <=> Excluded(p)
          /\ Excluded(p) => ~x[p]

C4_Witness ==
  /\ HasAssignment
  /\ \E p \in Pairs(fibers, links) :
        /\ Excluded(p)
        /\ Assigned(p[2]) # {}
        /\ \A k \in 1..Len(links) : ~x[<<p[1], k>>]

(* C5: after solve ends INFEASIBLE or UNKNOWN the report is "No solution" and *)
(* nothing is raised; only OPTIMAL or FEASIBLE give assignment lines.         *)
C5_NoSolution ==
  (pc = "printed" /\ solver = "CpSolver") =>
    /\ status \in {"INFEASIBLE", "UNKNOWN"} =>
          (out.returned = "No solution" /\ out.raised = "none")
    /\ out.returned = "report" => HasAssignment

OnlyOversizedFibers ==
  /\ \E k \in 1..Len(links) : links[k].cores = 2
  /\ \A f \in 1..Len(fibers) : fibers[f].cores > max_cores

LoneSixCoreCharged ==
  (Len(fibers) = 1 /\ fibers[1].cores = 6 /\ Len(links) = 1 /\ links[1].cores = 2) =>
     /\ x[<<1, 1>>]
     /\ ObjectiveValue(model, x, fibers, links) = core_penalty

(* C6: with a 2-core link and only fibers above max_cores there is *)
(* no feasible assignment; a lone admissible 6-core fiber is assigned to a    *)
(* 2-core link and the objective is core_penalty.                             *)
C6_Original ==
  HasAssignment => (~OnlyOversizedFibers /\ LoneSixCoreCharged)

(* C6, amended: max_cores bounds the fiber of a multicore link only (a fiber  *)
(* above max_cores is never given to a multicore link; a 2-core link may get  *)
(* one); a lone admissible 6-core fiber is assigned to a 2-core link and the  *)
(* objective is core_penalty.                                                 *)
C6_Amended ==
  HasAssignment =>
    /\ \A k \in 1..Len(links) :
          is_multicore(links[k]) =>
             \A f \in Assigned(k) : fibers[f].cores <= max_cores
    /\ LoneSixCoreCharged

C6_Witness ==
  /\ HasAssignment
  /\ Len(fibers) = 1 /\ fibers[1].cores = 6
  /\ Len(links) = 1 /\ links[1].cores = 2
  /\ x[<<1, 1>>]

RECURSIVE SumKeys(_, _)
SumKeys(d, keys) ==
  IF keys = {} THEN 0
  ELSE LET k == CHOOSE q \in keys : TRUE IN d[k] + SumKeys(d, keys \ {k})

Below(d) == { k \in DOMAIN d : k < min_coupler }

(* C7: after the fold the count reported for tier min_coupler is its count   *)
(* before the fold plus the counts of all tiers below min_coupler, and no tier *)
(* below min_coupler is reported.                                             *)
C7_FoldIntoMinCoupler ==
  (fold_runs = 1 /\ Below(prefold) # {}) =>
    /\ pc # "RuntimeError"
    /\ out.raised # "RuntimeError"
    /\ LET rows == CouplerLines(coupler_count)
       IN  /\ \A k \in DOMAIN rows : k >= min_coupler
           /\ min_coupler \in DOMAIN rows
           /\ rows[min_coupler] = Get(prefold, min_coupler) + SumKeys(prefold, Below(prefold))

ComposedObjective(fs, ls) ==
  LET calls == MinimizeCalls(fs, ls) IN SumExprs(calls, Len(calls))

(* C8: the objective the solver minimizes, and the total cost the report     *)
(* prints, is the sum of the mismatch penalties and all usage terms.          *)
C8_ComposedObjective ==
  HasAssignment =>
    /\ ObjectiveValue(model, x, fibers, links)
         = Value(ComposedObjective(fibers, links), x, Len(fibers), Len(links))
    /\ out.returned = "report" =>
         out.total_cost
           = Value(ComposedObjective(fibers, links), x, Len(fibers), Len(links))

ClaimedAmount(n, mc, size) == (n - 1) * ((CouplerScale * mc) \div size)

RECURSIVE ClaimedCouplers(_, _, _)
ClaimedCouplers(a, fs, k) ==
  IF k = 0 THEN EmptyDict
  ELSE LET d == ClaimedCouplers(a, fs, k - 1)
           fl == fib_list(a, fs, k)
           mc == max_core(fs, fl)
           size == IF mc >= max_coupler THEN max_coupler
                   ELSE IF mc >= min_coupler THEN min_coupler ELSE 1
       IN  IF Cardinality(fl) > 1
           THEN Put(d, size, Get(d, size) + ClaimedAmount(Cardinality(fl), mc, size))
           ELSE d

(* C9: a link with n > 1 fibers adds (n - 1) * (max core / tier size) to the *)
(* count of its tier (max_coupler, min_coupler or 1 by its max core); a link  *)
(* with one fiber adds nothing.                                               *)
C9_CouplerAmount ==
  (pc = "printed" /\ fold_runs = 1) =>
     prefold = ClaimedCouplers(x, fibers, Len(links))

(* C10: folding twice gives the same tier counts as folding once. *)
C10_FoldIdempotent ==
  (pc = "fold" /\ fold_runs = 2) => coupler_count = Fold(prefold).counts

====
